---- MODULE Spec2Model ----
(***************************************************************************)
(* A model of yahoo_finance.py: download() fans one collector thread out   *)
(* per symbol; each collector resolves the (cookie, crumb) pair through    *)
(* the process-wide CACHE, fetches the csv, parses it and stores the       *)
(* dataframe in its slot; download() joins the threads and, for the        *)
(* "history" event, aligns the adjusted-close series, computes the         *)
(* coverage, warns and drops the incomplete rows.                          *)
(*                                                                         *)
(* The interpreter lock makes a single dict read or write atomic, so the   *)
(* collectors interleave between the statements modelled as actions below. *)
(***************************************************************************)
EXTENDS Integers, Sequences, FiniteSets, TLC

----------------------------------------------------------------------------
(* Bounds of the model *)

\* longest symbol list passed to download() under Spec
MaxSyms == 2

\* threads of the process that are alive besides the main thread and the
\* collectors of this download() call (threading.activeCount() counts them)
OtherThreads == 14

\* SpecAgg draws the tables of at most MaxAggSyms symbols over the dates
\* 1..AggDates, and of one symbol over the dates 1..LongDates
AggDates == 3
MaxAggSyms == 2
LongDates == 10

\* SpecCsv lets the endpoint answer with any csv of at most MaxRows rows
MaxRows == 2

\* what datetime.datetime.now() converts to when download() is called; the
\* endpoint's rows are dated 1..3
Now == 3

----------------------------------------------------------------------------
(* Program constants *)

\* COVERAGE_TRESHOLD = 0.9, kept as the exact ratio 9/10
TresholdNum == 9
TresholdDen == 10

\* the throttle of download(): threading.activeCount() > 15
ThrottleLimit == 15

\* None in CACHE and in a collector's locals
None == 0

\* a missing value of a pandas series (what na_values=["null"] produces)
NaN == -1

\* the None a result slot holds until its collector stores a dataframe
NoneDF == [column |-> "None", rows |-> <<>>]

Symbols == {"AAA", "BBB"}
Events == {"history", "div", "split"}

----------------------------------------------------------------------------
VARIABLES
    symbols,        \* download(symbols, ...): the list of symbols
    event,          \* download(..., event)
    start_date,     \* download(..., start_date): the argument, then the epoch
    end_date,       \* download(..., end_date): the argument, then the epoch
    USE_THREADING,  \* module flag
    USE_CACHE,      \* module flag
    CACHE,          \* module dict: [cookie, crumb]
    debug_html,     \* debug.html: None, or the fetch whose page body it holds
    mpc,            \* position of the thread running download()
    index,          \* loop variable of the launch loop (1-based)
    joined,         \* number of threads the final join loop has joined
    pc,             \* position of each collector thread
    page,           \* per collector: (cookies, raw) of its _get_www_raw call
    fetched,        \* per collector: it has issued a quote-page request
    resolved,       \* per collector: its get_cookie_and_crumb call returned
    crumb,          \* per collector: local crumb of get_cookie_and_crumb
    got,            \* per collector: the pair get_cookie_and_crumb returned
    raw_csv,        \* per collector: local raw_csv
    df,             \* per collector: local df
    dataframes,     \* the result slots
    coverage,       \* local coverage of download(), as [num, den]
    warned,         \* the coverage warning was emitted
    ret             \* what download() returned or raised

vars == <<symbols, event, start_date, end_date, USE_THREADING, USE_CACHE,
          CACHE, debug_html, mpc,
          index, joined, pc, page, fetched, resolved, crumb, got, raw_csv, df,
          dataframes, coverage, warned, ret>>

config == <<symbols, event, USE_THREADING, USE_CACHE>>
dateArgs == <<start_date, end_date>>
mainLocals == <<mpc, index, joined, coverage, warned, ret>>
credLocals == <<page, fetched, resolved, crumb, got>>
csvLocals == <<raw_csv, df>>

N == Len(symbols)
Tasks == 1..N

----------------------------------------------------------------------------
(* The remote service *)

\* rows (date, value) the download endpoint holds per symbol and event
Quotes(s) ==
    IF s = "AAA" THEN << <<1, 11>>, <<2, 12>>, <<3, 13>> >>
                 ELSE << <<1, 21>>, <<3, 23>> >>

Dividends(s) ==
    IF s = "AAA" THEN << <<2, 1>> >> ELSE << <<3, 2>> >>

Splits(s) ==
    IF s = "AAA" THEN << >> ELSE << <<1, 2>> >>

ValueColumn(e) ==
    CASE e = "history" -> "Adj Close"
      [] e = "div"     -> "Dividends"
      [] OTHER         -> "Stock Splits"

\* the numerals a csv cell may hold
Numbers == 0..40

Numeral == [n \in Numbers |-> ToString(n)]

\* the csv text of a table: a header line and one line of text cells per row
CsvText(column, rows) ==
    [header |-> <<"Date", column>>,
     lines  |-> [k \in 1..Len(rows) |->
                   <<Numeral[rows[k][1]],
                     IF rows[k][2] = NaN THEN "null" ELSE Numeral[rows[k][2]]>>]]

\* the body the endpoint answers with when it refuses the request
ErrorText == [header |-> <<"error">>, lines |-> <<>>]

ServedRows(s, e) ==
    CASE e = "history" -> Quotes(s)
      [] e = "div"     -> Dividends(s)
      [] OTHER         -> Splits(s)

ServedCsv(s, e) == CsvText(ValueColumn(e), ServedRows(s, e))

----------------------------------------------------------------------------
(* _process_raw_csv *)

IsNumeral(t) == \E n \in Numbers : Numeral[n] = t
ParseInt(t) == CHOOSE n \in Numbers : Numeral[n] = t

\* read_csv(na_values=["null"]) on one value cell
ParseCell(t) == IF t = "null" THEN NaN ELSE ParseInt(t)

\* the csv parses iff it has a Date column and every date cell is a date
CsvParses(csv) ==
    /\ Len(csv.header) = 2
    /\ csv.header[1] = "Date"
    /\ \A k \in 1..Len(csv.lines) : IsNumeral(csv.lines[k][1])

\* the elements of a set of dates in ascending order
RECURSIVE Ascending(_)
Ascending(S) ==
    IF S = {} THEN <<>>
    ELSE LET m == CHOOSE x \in S : \A y \in S : x <= y
         IN  <<m>> \o Ascending(S \ {m})

\* df.set_index("Date").sort_index(): the rows put in the order of their dates
ProcessRawCsvSorted(csv) ==
    LET order == Ascending({ParseInt(csv.lines[k][1]) : k \in 1..Len(csv.lines)})
        line(d) == CHOOSE k \in 1..Len(csv.lines) : ParseInt(csv.lines[k][1]) = d
    IN  [column |-> csv.header[2],
         rows   |-> [j \in 1..Len(order) |->
                       <<order[j], ParseCell(csv.lines[line(order[j])][2])>>]]

\* df.set_index("Date"): the rows in the order of the csv
ProcessRawCsv(csv) ==
    [column |-> csv.header[2],
     rows   |-> [k \in 1..Len(csv.lines) |->
                   <<ParseInt(csv.lines[k][1]), ParseCell(csv.lines[k][2])>>]]

----------------------------------------------------------------------------
(* The aggregation of download(): lines 195-203 *)

\* the index and the value at a date of one adjusted-close series
SeriesDates(series) == {series[k][1] : k \in DOMAIN series}
ValueAt(series, d) ==
    IF d \in SeriesDates(series)
        THEN LET k == CHOOSE j \in DOMAIN series : series[j][1] = d
             IN  series[k][2]
        ELSE NaN

\* pandas.concat(dataframes, axis=1): the outer join on the date index,
\* one column per series, NaN where a series has no row for the date
Concat(series) ==
    LET dates == UNION {SeriesDates(series[i]) : i \in DOMAIN series}
    IN  [d \in dates |-> [i \in DOMAIN series |-> ValueAt(series[i], d)]]

\* dropna(how="all") in place of dropna(): only the rows that are all missing go
DropNaAll(master) ==
    LET kept == {d \in DOMAIN master : \E i \in DOMAIN master[d] : master[d][i] # NaN}
    IN  [d \in kept |-> master[d]]

\* DataFrame.dropna(): the rows without a missing value
DropNa(master) ==
    LET kept == {d \in DOMAIN master : \A i \in DOMAIN master[d] : master[d][i] # NaN}
    IN  [d \in kept |-> master[d]]

\* DataFrame.size: rows times columns
Size(master, ncols) == Cardinality(DOMAIN master) * ncols

\* master.count().sum() / master.size in place of the dropna() ratio: the
\* non-missing cells over all cells
CoverageNonMissing(master, ncols) ==
    [num |-> Cardinality({c \in (DOMAIN master) \X (1..ncols) : master[c[1]][c[2]] # NaN}),
     den |-> Size(master, ncols)]

\* coverage = master.dropna().size / master.size, as an exact ratio
Coverage(master, ncols) ==
    [num |-> Size(DropNa(master), ncols), den |-> Size(master, ncols)]

\* coverage < COVERAGE_TRESHOLD in place of <=
TresholdHitStrict(cov) == cov.num * TresholdDen < TresholdNum * cov.den

\* coverage <= COVERAGE_TRESHOLD
TresholdHit(cov) == cov.num * TresholdDen <= TresholdNum * cov.den

NoCoverage == [num |-> 0, den |-> 0]
NoReturn == [kind |-> "none", value |-> <<>>]
Raise(e) == [kind |-> "raise", value |-> e]

----------------------------------------------------------------------------
(* Initial states *)

SymbolLists(n) == UNION {[1..k -> Symbols] : k \in 0..n}

NoPage == [hasCrumb |-> FALSE, hasB |-> FALSE]
NoPair == [cookie |-> None, crumb |-> None]

\* the start_date and end_date arguments: None or a datetime, here its
\* local time in seconds since the epoch and its microseconds
NoDate == [kind |-> "None", secs |-> 0, micro |-> 0]
DateTimes ==
    [kind : {"datetime"}, secs : (0 - 1)..(Now + 1), micro : {0, 500000}]

\* the integer the same names hold once they are converted
Epoch(n) == [kind |-> "int", secs |-> n, micro |-> 0]

\* download(symbols, start_date, end_date, event) has been called with
\* arguments from the given sets; CACHE is as the module defines it
Called(startArgs, endArgs) ==
    /\ symbols \in SymbolLists(MaxSyms)
    /\ event \in Events
    /\ start_date \in startArgs
    /\ end_date \in endArgs
    /\ USE_THREADING \in BOOLEAN
    /\ USE_CACHE \in BOOLEAN
    /\ CACHE = [cookie |-> None, crumb |-> None]
    /\ debug_html = None
    /\ mpc = "begin"
    /\ index = 1
    /\ joined = 0
    /\ pc = [i \in Tasks |-> "unstarted"]
    /\ page = [i \in Tasks |-> NoPage]
    /\ fetched = [i \in Tasks |-> FALSE]
    /\ resolved = [i \in Tasks |-> FALSE]
    /\ crumb = [i \in Tasks |-> None]
    /\ got = [i \in Tasks |-> NoPair]
    /\ raw_csv = [i \in Tasks |-> ErrorText]
    /\ df = [i \in Tasks |-> NoneDF]
    /\ dataframes = [i \in Tasks |-> NoneDF]
    /\ coverage = NoCoverage
    /\ warned = FALSE
    /\ ret = NoReturn

\* download(symbols, event=event): both dates left at their default
Init == Called({NoDate}, {NoDate})

----------------------------------------------------------------------------
(* get_cookie_and_crumb, run by collector i *)

\* if USE_CACHE or not all(CACHE.values()): the flag read the wrong way round
CacheMissInverted == USE_CACHE \/ CACHE.cookie = None \/ CACHE.crumb = None

\* line 87: if not USE_CACHE or not all(CACHE.values())
CacheMiss == ~USE_CACHE \/ CACHE.cookie = None \/ CACHE.crumb = None

CheckCache(i) ==
    /\ pc[i] = "check"
    /\ pc' = [pc EXCEPT ![i] = IF CacheMiss THEN "get_www" ELSE "ret_cookie"]
    /\ UNCHANGED <<config, dateArgs, mainLocals, credLocals, csvLocals, CACHE, debug_html,
                   dataframes>>

\* lines 89-99: cookies, raw = _get_www_raw(symbol), then the search for
\* the crumb marker. The request fails, or the page arrives with or without
\* the marker and the B cookie; the fetch of collector i yields the crumb
\* and the cookie named i. Without the marker: IndexError, handled next.
GetWwwRaw(i) ==
    /\ pc[i] = "get_www"
    /\ fetched' = [fetched EXCEPT ![i] = TRUE]
    /\ \/ /\ pc' = [pc EXCEPT ![i] = "failed"]
          /\ UNCHANGED <<page, crumb>>
       \/ \E p \in [hasCrumb : BOOLEAN, hasB : BOOLEAN] :
             /\ page' = [page EXCEPT ![i] = p]
             /\ IF p.hasCrumb
                   THEN /\ crumb' = [crumb EXCEPT ![i] = i]
                        /\ pc' = [pc EXCEPT ![i] = "set_crumb"]
                   ELSE /\ crumb' = crumb
                        /\ pc' = [pc EXCEPT ![i] = "write_debug"]
    /\ UNCHANGED <<config, dateArgs, mainLocals, resolved, got, csvLocals, CACHE,
                   debug_html, dataframes>>

\* the RuntimeError raised without the page body being written
WriteDebugSkipped(i) ==
    /\ pc[i] = "write_debug"
    /\ debug_html' = debug_html
    /\ pc' = [pc EXCEPT ![i] = "raise_crumb"]
    /\ UNCHANGED <<config, dateArgs, mainLocals, credLocals, csvLocals, CACHE, dataframes>>

\* line 100: the page body goes to debug.html
WriteDebug(i) ==
    /\ pc[i] = "write_debug"
    /\ debug_html' = i
    /\ pc' = [pc EXCEPT ![i] = "raise_crumb"]
    /\ UNCHANGED <<config, dateArgs, mainLocals, credLocals, csvLocals, CACHE, dataframes>>

\* the failure made to empty CACHE before it raises
RaiseCrumbResets(i) ==
    /\ pc[i] = "raise_crumb"
    /\ pc' = [pc EXCEPT ![i] = "failed"]
    /\ page' = [page EXCEPT ![i] = NoPage]
    /\ CACHE' = [cookie |-> None, crumb |-> None]
    /\ UNCHANGED <<config, dateArgs, mainLocals, fetched, resolved, crumb, got,
                   csvLocals, debug_html, dataframes>>

\* lines 101-102: raise RuntimeError; the exception ends the collector
RaiseCrumb(i) ==
    /\ pc[i] = "raise_crumb"
    /\ pc' = [pc EXCEPT ![i] = "failed"]
    /\ page' = [page EXCEPT ![i] = NoPage]
    /\ UNCHANGED <<config, dateArgs, mainLocals, fetched, resolved, crumb, got, csvLocals, CACHE,
                   debug_html, dataframes>>

\* line 110: CACHE["crumb"] = crumb
SetCrumb(i) ==
    /\ pc[i] = "set_crumb"
    /\ CACHE' = [CACHE EXCEPT !.crumb = crumb[i]]
    /\ pc' = [pc EXCEPT ![i] = "set_cookie"]
    /\ UNCHANGED <<config, dateArgs, mainLocals, credLocals, csvLocals, debug_html,
                   dataframes>>

\* line 113: CACHE["cookie"] = dict(B=cookies["B"]), or KeyError
SetCookie(i) ==
    /\ pc[i] = "set_cookie"
    /\ IF page[i].hasB
          THEN /\ CACHE' = [CACHE EXCEPT !.cookie = i]
               /\ pc' = [pc EXCEPT ![i] = "ret_cookie"]
               /\ UNCHANGED <<page, crumb>>
          ELSE /\ CACHE' = CACHE
               /\ pc' = [pc EXCEPT ![i] = "failed"]
               /\ page' = [page EXCEPT ![i] = NoPage]
               /\ crumb' = [crumb EXCEPT ![i] = None]
    /\ UNCHANGED <<config, dateArgs, mainLocals, fetched, resolved, got, csvLocals, debug_html,
                   dataframes>>

\* line 116, first subscript: CACHE["cookie"]
ReturnCookie(i) ==
    /\ pc[i] = "ret_cookie"
    /\ got' = [got EXCEPT ![i].cookie = CACHE.cookie]
    /\ pc' = [pc EXCEPT ![i] = "ret_crumb"]
    /\ UNCHANGED <<config, dateArgs, mainLocals, page, fetched, resolved, crumb, csvLocals, CACHE,
                   debug_html, dataframes>>

\* line 116, second subscript: CACHE["crumb"]; the call returns the pair
ReturnCrumb(i) ==
    /\ pc[i] = "ret_crumb"
    /\ got' = [got EXCEPT ![i].crumb = CACHE.crumb]
    /\ page' = [page EXCEPT ![i] = NoPage]
    /\ crumb' = [crumb EXCEPT ![i] = None]
    /\ resolved' = [resolved EXCEPT ![i] = TRUE]
    /\ pc' = [pc EXCEPT ![i] = "get_csv"]
    /\ UNCHANGED <<config, dateArgs, mainLocals, fetched, csvLocals, CACHE, debug_html,
                   dataframes>>

----------------------------------------------------------------------------
(* get_raw_csv_data and collector *)

\* lines 125-137 and 168-169: the csv request, sent with the pair that
\* get_cookie_and_crumb returned, fails, or the endpoint answers with the csv
\* of the symbol or with an error body, which df = _process_raw_csv(raw_csv)
\* parses or rejects; bodies are the bodies the endpoint may answer with
GetRawCsvDataFrom(i, bodies) ==
    /\ pc[i] = "get_csv"
    /\ got' = [got EXCEPT ![i] = NoPair]
    /\ \/ /\ pc' = [pc EXCEPT ![i] = "failed"]
          /\ UNCHANGED <<raw_csv, df>>
       \/ \E body \in bodies :
             IF CsvParses(body)
                THEN /\ raw_csv' = [raw_csv EXCEPT ![i] = body]
                     /\ df' = [df EXCEPT ![i] = ProcessRawCsv(body)]
                     /\ pc' = [pc EXCEPT ![i] = "store"]
                ELSE /\ UNCHANGED <<raw_csv, df>>
                     /\ pc' = [pc EXCEPT ![i] = "failed"]
    /\ UNCHANGED <<config, dateArgs, mainLocals, page, fetched, resolved, crumb, CACHE,
                   debug_html, dataframes>>

\* the endpoint holds the rows of the market above and answers with the csv
\* of the symbol or with an error body
GetRawCsvData(i) ==
    GetRawCsvDataFrom(i, {ServedCsv(symbols[i], event), ErrorText})

\* dataframes.append(df) in place of dataframes[index] = df: the dataframe
\* goes to the first slot that is still free
StoreAppend(i) ==
    /\ pc[i] = "store"
    /\ LET k == CHOOSE j \in Tasks :
                   /\ dataframes[j] = NoneDF
                   /\ \A h \in 1..(j - 1) : dataframes[h] # NoneDF
       IN  dataframes' = [dataframes EXCEPT ![k] = df[i]]
    /\ pc' = [pc EXCEPT ![i] = "done"]
    /\ raw_csv' = [raw_csv EXCEPT ![i] = ErrorText]
    /\ df' = [df EXCEPT ![i] = NoneDF]
    /\ UNCHANGED <<config, dateArgs, mainLocals, credLocals, CACHE, debug_html>>

\* line 170: dataframes[index] = df; the collector returns
Store(i) ==
    /\ pc[i] = "store"
    /\ dataframes' = [dataframes EXCEPT ![i] = df[i]]
    /\ pc' = [pc EXCEPT ![i] = "done"]
    /\ raw_csv' = [raw_csv EXCEPT ![i] = ErrorText]
    /\ df' = [df EXCEPT ![i] = NoneDF]
    /\ UNCHANGED <<config, dateArgs, mainLocals, credLocals, CACHE, debug_html>>

----------------------------------------------------------------------------
(* download, run by the main thread *)

Terminated(i) == pc[i] \in {"done", "failed"}
Alive(i) == pc[i] \notin {"unstarted", "done", "failed"}

\* lines 58-67: int(time.mktime(dt.timetuple())), the time tuple having no
\* microseconds; datetime.datetime.now() for None
ToUnixEpoch(dt) == IF dt.kind = "None" THEN Now ELSE dt.secs

\* the asserts of lines 158-159 left out
ValidateNoAssert ==
    /\ mpc = "begin"
    /\ start_date' = IF start_date.kind = "None" THEN Epoch(0)
                                                 ELSE Epoch(ToUnixEpoch(start_date))
    /\ end_date' = Epoch(ToUnixEpoch(end_date))
    /\ mpc' = "launch"
    /\ ret' = ret
    /\ UNCHANGED <<config, index, joined, coverage, warned, pc, credLocals,
                   csvLocals, CACHE, debug_html, dataframes>>

\* lines 143-159: start_date and end_date become epoch numbers, 0 for a
\* start_date of None; the two asserts let the call go on or end it
Validate ==
    /\ mpc = "begin"
    /\ start_date' = IF start_date.kind = "None" THEN Epoch(0)
                                                 ELSE Epoch(ToUnixEpoch(start_date))
    /\ end_date' = Epoch(ToUnixEpoch(end_date))
    /\ IF start_date'.secs >= 0 /\ start_date'.secs <= end_date'.secs
          THEN /\ mpc' = "launch"
               /\ ret' = ret
          ELSE /\ mpc' = "done"
               /\ ret' = Raise("AssertionError")
    /\ UNCHANGED <<config, index, joined, coverage, warned, pc, credLocals,
                   csvLocals, CACHE, debug_html, dataframes>>

\* threading.activeCount(): the main thread, the other threads of the
\* process and the collectors that were started and have not ended
ActiveCount == 1 + OtherThreads + Cardinality({i \in Tasks : Alive(i)})

\* the thread created and put in the list but never started
LaunchNoStart ==
    /\ mpc = "launch"
    /\ index <= N
    /\ pc' = pc
    /\ mpc' = IF USE_THREADING THEN "throttle" ELSE "join"
    /\ UNCHANGED <<config, dateArgs, index, joined, coverage, warned, ret, credLocals,
                   csvLocals, CACHE, debug_html, dataframes>>

\* lines 175-180: the next symbol's thread is created and started
Launch ==
    /\ mpc = "launch"
    /\ index <= N
    /\ pc' = [pc EXCEPT ![index] = "check"]
    /\ mpc' = IF USE_THREADING THEN "throttle" ELSE "join"
    /\ UNCHANGED <<config, dateArgs, index, joined, coverage, warned, ret, credLocals,
                   csvLocals, CACHE, debug_html, dataframes>>

\* the join of the started thread left out
JoinStartedNoWait ==
    /\ mpc = "join"
    /\ mpc' = "throttle"
    /\ UNCHANGED <<config, dateArgs, index, joined, coverage, warned, ret, pc, credLocals,
                   csvLocals, CACHE, debug_html, dataframes>>

\* lines 182-183: if not USE_THREADING: thread.join()
JoinStarted ==
    /\ mpc = "join"
    /\ Terminated(index)
    /\ mpc' = "throttle"
    /\ UNCHANGED <<config, dateArgs, index, joined, coverage, warned, ret, pc, credLocals,
                   csvLocals, CACHE, debug_html, dataframes>>

\* line 185: if threading.activeCount() > 15, else the next iteration
Throttle ==
    /\ mpc = "throttle"
    /\ IF ActiveCount > ThrottleLimit
          THEN /\ mpc' = "sleep"
               /\ index' = index
          ELSE /\ mpc' = "launch"
               /\ index' = index + 1
    /\ UNCHANGED <<config, dateArgs, joined, coverage, warned, ret, pc, credLocals,
                   csvLocals, CACHE, debug_html, dataframes>>

\* the pause taken in place of the next launch: a symbol is skipped
SleepSkips ==
    /\ mpc = "sleep"
    /\ mpc' = "launch"
    /\ index' = index + 2
    /\ UNCHANGED <<config, dateArgs, joined, coverage, warned, ret, pc, credLocals,
                   csvLocals, CACHE, debug_html, dataframes>>

\* lines 186-187: the warning and time.sleep(0.5), then the next iteration
Sleep ==
    /\ mpc = "sleep"
    /\ mpc' = "launch"
    /\ index' = index + 1
    /\ UNCHANGED <<config, dateArgs, joined, coverage, warned, ret, pc, credLocals,
                   csvLocals, CACHE, debug_html, dataframes>>

\* line 175: the launch loop is exhausted
LoopExit ==
    /\ mpc = "launch"
    /\ index > N
    /\ mpc' = "joinall"
    /\ UNCHANGED <<config, dateArgs, index, joined, coverage, warned, ret, pc, credLocals,
                   csvLocals, CACHE, debug_html, dataframes>>

\* the final loop passing over the threads without waiting for their end
JoinAllNoWait ==
    /\ mpc = "joinall"
    /\ joined < N
    /\ joined' = joined + 1
    /\ UNCHANGED <<config, dateArgs, mpc, index, coverage, warned, ret, pc, credLocals,
                   csvLocals, CACHE, debug_html, dataframes>>

\* line 190: for thread in threads: thread.join()
JoinAll ==
    /\ mpc = "joinall"
    /\ joined < N
    /\ Terminated(joined + 1)
    /\ joined' = joined + 1
    /\ UNCHANGED <<config, dateArgs, mpc, index, coverage, warned, ret, pc, credLocals,
                   csvLocals, CACHE, debug_html, dataframes>>

\* line 195: [df["Adj Close"] for df in dataframes] raises on a slot that is
\* still None (TypeError) or a table without the column (KeyError)
AdjCloseError(frames) ==
    IF \E i \in DOMAIN frames : frames[i] = NoneDF THEN "TypeError"
    ELSE IF \E i \in DOMAIN frames : frames[i].column # "Adj Close" THEN "KeyError"
    ELSE "none"

AdjClose(frames) == [i \in DOMAIN frames |-> frames[i].rows]

\* 0 / 0 in line 198 when the aligned matrix has no row: nan where
\* DataFrame.size is a numpy integer, ZeroDivisionError where it is an int
ZeroOverZero == {"nan", "ZeroDivisionError"}

\* lines 195-203: the adjusted-close columns aligned, the coverage, the
\* warning and the rows without a missing value under the symbols as labels
AlignedTable(frames, syms, zero) ==
    IF AdjCloseError(frames) # "none"
        THEN [ret |-> Raise(AdjCloseError(frames)),
              coverage |-> NoCoverage, warned |-> FALSE]
    ELSE IF Len(frames) = 0
        \* pandas.concat([]): No objects to concatenate
        THEN [ret |-> Raise("ValueError"),
              coverage |-> NoCoverage, warned |-> FALSE]
    ELSE LET master == Concat(AdjClose(frames))
             cov == Coverage(master, Len(frames))
             table == [kind |-> "frame",
                       value |-> [columns |-> syms, data |-> DropNa(master)]]
         IN  IF cov.den = 0
                 THEN IF zero = "nan"
                         \* nan <= COVERAGE_TRESHOLD is false
                         THEN [ret |-> table, coverage |-> cov, warned |-> FALSE]
                         ELSE [ret |-> Raise("ZeroDivisionError"),
                               coverage |-> NoCoverage, warned |-> FALSE]
                 ELSE [ret |-> table, coverage |-> cov, warned |-> TresholdHit(cov)]

\* lines 192-193: if event != "history": return dataframes
RawTables(frames) ==
    [ret |-> [kind |-> "list", value |-> frames],
     coverage |-> NoCoverage, warned |-> FALSE]

\* if event == "history": return dataframes, the test the wrong way round
AggregateInverted(frames, syms, ev, zero) ==
    IF ev = "history" THEN RawTables(frames) ELSE AlignedTable(frames, syms, zero)

\* lines 192-203 on the slots as the joins left them: what download()
\* returns or raises, the coverage it computed and whether it warned
Aggregate(frames, syms, ev, zero) ==
    IF ev # "history" THEN RawTables(frames) ELSE AlignedTable(frames, syms, zero)

Return ==
    /\ mpc = "joinall"
    /\ joined = N
    /\ \E zero \in ZeroOverZero :
          LET out == Aggregate(dataframes, symbols, event, zero)
          IN  /\ ret' = out.ret
              /\ coverage' = out.coverage
              /\ warned' = out.warned
    /\ mpc' = "done"
    /\ UNCHANGED <<config, dateArgs, index, joined, pc, credLocals, csvLocals, CACHE,
                   debug_html, dataframes>>

Next ==
    \/ Validate
    \/ Launch \/ JoinStarted \/ Throttle \/ Sleep \/ LoopExit \/ JoinAll
    \/ Return
    \/ \E i \in Tasks : CheckCache(i)
    \/ \E i \in Tasks : GetWwwRaw(i)
    \/ \E i \in Tasks : WriteDebug(i)
    \/ \E i \in Tasks : RaiseCrumb(i)
    \/ \E i \in Tasks : SetCrumb(i)
    \/ \E i \in Tasks : SetCookie(i)
    \/ \E i \in Tasks : ReturnCookie(i)
    \/ \E i \in Tasks : ReturnCrumb(i)
    \/ \E i \in Tasks : GetRawCsvData(i)
    \/ \E i \in Tasks : Store(i)

Spec == Init /\ [][Next]_vars

----------------------------------------------------------------------------
(* The aggregation on arbitrary tables: download() at the end of its join  *)
(* loop, every collector having stored the parse of the csv it was served *)

\* the symbol list of n symbols: AAA, BBB, AAA, ...
AggSymbols(n) == [i \in 1..n |-> IF i % 2 = 1 THEN "AAA" ELSE "BBB"]

\* the rows a symbol's csv holds: per date no row, a null or a price
RowsOf(f, i) ==
    LET dates == Ascending({d \in DOMAIN f : f[d] # "absent"})
    IN  [k \in 1..Len(dates) |->
           <<dates[k], IF f[dates[k]] = "null" THEN NaN ELSE 10 * i + dates[k]>>]

\* the slots after the collectors of these tables have stored their parse
Served(served) ==
    /\ symbols = AggSymbols(Len(served))
    /\ dataframes = [i \in 1..Len(served) |->
                       ProcessRawCsv(CsvText("Adj Close", RowsOf(served[i], i)))]

\* up to MaxAggSyms symbols over the dates 1..AggDates, any date missing or
\* null; or one symbol with a row for each of the dates 1..LongDates, any
\* adjusted close null
InitAgg ==
    /\ \/ \E n \in 0..MaxAggSyms :
             \E served \in [1..n -> [1..AggDates -> {"absent", "null", "value"}]] :
                Served(served)
       \/ \E served \in [1..1 -> [1..LongDates -> {"null", "value"}]] :
             Served(served)
    /\ event = "history"
    /\ start_date = Epoch(0)
    /\ end_date = Epoch(Now)
    /\ USE_THREADING = TRUE
    /\ USE_CACHE = TRUE
    /\ CACHE = IF N = 0 THEN [cookie |-> None, crumb |-> None]
                        ELSE [cookie |-> 1, crumb |-> 1]
    /\ debug_html = None
    /\ mpc = "joinall"
    /\ index = N + 1
    /\ joined = N
    /\ pc = [i \in Tasks |-> "done"]
    /\ page = [i \in Tasks |-> NoPage]
    /\ fetched = [i \in Tasks |-> i = 1]
    /\ resolved = [i \in Tasks |-> TRUE]
    /\ crumb = [i \in Tasks |-> None]
    /\ got = [i \in Tasks |-> NoPair]
    /\ raw_csv = [i \in Tasks |-> ErrorText]
    /\ df = [i \in Tasks |-> NoneDF]
    /\ coverage = NoCoverage
    /\ warned = FALSE
    /\ ret = NoReturn

NextAgg == Return

SpecAgg == InitAgg /\ [][NextAgg]_vars

----------------------------------------------------------------------------
(* One collector served an arbitrary csv: the rows in any order, dated in  *)
(* or out of the range asked for                                          *)

\* the tables of at most n rows with different dates out of 0..Now + 1, any
\* value null
RowLists(n) ==
    {rows \in UNION {[1..k -> (0..(Now + 1)) \X {NaN, 7}] : k \in 0..n} :
        \A j, k \in DOMAIN rows : j # k => rows[j][1] # rows[k][1]}

AnyCsv(e) == {CsvText(ValueColumn(e), rows) : rows \in RowLists(MaxRows)}

\* download() of one symbol with 0 <= start_date <= end_date, in its join
\* loop; the collector has the pair and sends the csv request
InitCsv ==
    /\ symbols \in [1..1 -> Symbols]
    /\ event \in Events
    /\ start_date \in {Epoch(n) : n \in 0..Now}
    /\ end_date \in {Epoch(n) : n \in start_date.secs..Now}
    /\ USE_THREADING = TRUE
    /\ USE_CACHE = TRUE
    /\ CACHE = [cookie |-> 1, crumb |-> 1]
    /\ debug_html = None
    /\ mpc = "joinall"
    /\ index = N + 1
    /\ joined = 0
    /\ pc = [i \in Tasks |-> "get_csv"]
    /\ page = [i \in Tasks |-> NoPage]
    /\ fetched = [i \in Tasks |-> TRUE]
    /\ resolved = [i \in Tasks |-> TRUE]
    /\ crumb = [i \in Tasks |-> None]
    /\ got = [i \in Tasks |-> [cookie |-> 1, crumb |-> 1]]
    /\ raw_csv = [i \in Tasks |-> ErrorText]
    /\ df = [i \in Tasks |-> NoneDF]
    /\ dataframes = [i \in Tasks |-> NoneDF]
    /\ coverage = NoCoverage
    /\ warned = FALSE
    /\ ret = NoReturn

NextCsv ==
    \/ \E i \in Tasks : GetRawCsvDataFrom(i, AnyCsv(event) \cup {ErrorText})
    \/ \E i \in Tasks : Store(i)
    \/ JoinAll
    \/ Return

SpecCsv == InitCsv /\ [][NextCsv]_vars

----------------------------------------------------------------------------
(* The threads of download() with the symbols named by position: neither  *)
(* the launch and join loops nor get_cookie_and_crumb read which symbols   *)
(* are asked for, so one list per length stands for all                    *)

InitPos ==
    /\ Init
    /\ symbols = AggSymbols(N)

SpecPos == InitPos /\ [][Next]_vars

\* Fair scheduling with every network request returning or failing: a
\* thread that can take a step is not held back forever. Every step of Next
\* moves some thread forward, so weak fairness of Next is all that is used.
SpecLive == InitPos /\ [][Next]_vars /\ WF_vars(Next)

----------------------------------------------------------------------------
(* download() of at most one symbol with any start_date and end_date: None *)
(* or a datetime from before the epoch to after now                        *)

InitArgs ==
    /\ Called({NoDate} \cup DateTimes, {NoDate} \cup DateTimes)
    /\ N <= 1
    /\ symbols = AggSymbols(N)

SpecArgs == InitArgs /\ [][Next]_vars

----------------------------------------------------------------------------
(* What the claims are stated over *)

AllDone == \A i \in Tasks : pc[i] = "done"

\* the adjusted close the endpoint holds for a symbol at a date
ServedValue(s, d) ==
    LET k == CHOOSE j \in DOMAIN Quotes(s) : Quotes(s)[j][1] = d
    IN  Quotes(s)[k][2]

\* read off the slots: the dates with a row, and with a value, in slot i
HasRow(i, d) == \E k \in DOMAIN dataframes[i].rows : dataframes[i].rows[k][1] = d
HasValue(i, d) ==
    \E k \in DOMAIN dataframes[i].rows :
        /\ dataframes[i].rows[k][1] = d
        /\ dataframes[i].rows[k][2] # NaN
SlotValue(i, d) ==
    LET k == CHOOSE j \in DOMAIN dataframes[i].rows : dataframes[i].rows[j][1] = d
    IN  dataframes[i].rows[k][2]

UnionDates ==
    UNION {{dataframes[i].rows[k][1] : k \in DOMAIN dataframes[i].rows} : i \in Tasks}
CompleteDates == {d \in UnionDates : \A i \in Tasks : HasValue(i, d)}
NonMissingCells == Cardinality({c \in UnionDates \X Tasks : HasValue(c[2], c[1])})
TotalCells == Cardinality(UnionDates) * N

\* the scenario: AAA has rows for D1, D2, D3 and BBB for D1, D3
Scenario ==
    /\ symbols = <<"AAA", "BBB">>
    /\ event = "history"
    /\ dataframes[1].rows = Quotes("AAA")
    /\ dataframes[2].rows = Quotes("BBB")

----------------------------------------------------------------------------
(* The claims *)

\* C1: when every fetch and parse of a history request has succeeded,
\* download returns a table with one column per input symbol, column i
\* labelled with input symbol i and holding adjusted closes of symbol i,
\* in every completion order of the collectors.
C1_ColumnsFollowInput ==
    (mpc = "done" /\ event = "history" /\ N >= 1 /\ AllDone) =>
        /\ ret.kind = "frame"
        /\ Len(ret.value.columns) = N
        /\ ret.value.columns = symbols
        /\ DOMAIN ret.value.data # {}
        /\ \A d \in DOMAIN ret.value.data :
              /\ DOMAIN ret.value.data[d] = 1..N
              /\ \A i \in Tasks :
                    ret.value.data[d][i] = ServedValue(symbols[i], d)

\* two different symbols, both collectors running at once (each fetched its
\* own quote page although the cache is on), and the table returned
C1_Witness ==
    /\ mpc = "done"
    /\ ret.kind = "frame"
    /\ symbols = <<"BBB", "AAA">>
    /\ USE_THREADING /\ USE_CACHE
    /\ fetched[1] /\ fetched[2]

\* C2: if the fetch or parse of a symbol fails, download, once it is done,
\* has raised an error (for every event kind); it has not returned normally.
C2_FailureSurfaces ==
    (mpc = "done" /\ \E i \in Tasks : pc[i] = "failed") => ret.kind = "raise"

\* the first get_cookie_and_crumb call that returned
FirstResolved == CHOOSE k \in Tasks : resolved[k] /\ \A j \in 1..(k - 1) : ~resolved[j]

\* C3: with the cache on and the calls made one after the other, once a
\* call of get_cookie_and_crumb has returned, no later call fetches a quote
\* page, every later call returns the pair that call cached, and that call
\* and the later ones together made exactly one quote-page fetch.
C3_Memoized ==
    (USE_CACHE /\ ~USE_THREADING /\ \E k \in Tasks : resolved[k]) =>
        LET k == FirstResolved
        IN  /\ \A j \in Tasks : j > k => ~fetched[j]
            /\ Cardinality({j \in Tasks : j >= k /\ fetched[j]}) = 1
            /\ CACHE = [cookie |-> k, crumb |-> k]
            /\ \A j \in Tasks :
                  (j >= k /\ pc[j] = "get_csv") => got[j] = [cookie |-> k, crumb |-> k]

\* the second call has returned the pair of the first without a fetch
C3_Witness ==
    /\ USE_CACHE /\ ~USE_THREADING
    /\ N = 2
    /\ resolved[1]
    /\ pc[2] = "get_csv"
    /\ ~fetched[2]
    /\ got[2] = [cookie |-> 1, crumb |-> 1]

\* C4: in every state of the credential cache the cookie and the crumb are
\* both present or both absent.
C4_BothOrNeither == (CACHE.cookie = None) <=> (CACHE.crumb = None)

\* C5: with the cache on, a field of the credential cache that has been
\* written is never written again with another value.
C5_WrittenOnce ==
    [][USE_CACHE =>
          /\ (CACHE.crumb # None => CACHE'.crumb = CACHE.crumb)
          /\ (CACHE.cookie # None => CACHE'.cookie = CACHE.cookie)]_vars

\* C6 as stated: the coverage download computes is the number of non-missing
\* cells of the aligned matrix over the number of its cells, 5/6 in the
\* scenario.
C6_NonMissingFraction ==
    (mpc = "done" /\ ret.kind = "frame" /\ UnionDates # {}) =>
        /\ coverage.num * TotalCells = NonMissingCells * coverage.den
        /\ Scenario => coverage.num * 6 = 5 * coverage.den

\* C6, amended: the coverage download computes is the number of cells in the
\* complete rows of the aligned matrix (the rows without a missing value)
\* over the number of its cells, 4/6 in the scenario.
C6_CompleteRowFraction ==
    (mpc = "done" /\ ret.kind = "frame" /\ UnionDates # {}) =>
        /\ coverage.num = Cardinality(CompleteDates) * N
        /\ coverage.den = TotalCells
        /\ Scenario => coverage.num * 6 = 4 * coverage.den

\* the scenario has been aggregated
C6_Witness ==
    /\ mpc = "done"
    /\ Scenario
    /\ ret.kind = "frame"
    /\ coverage = [num |-> 4, den |-> 6]
    /\ NonMissingCells = 5

\* C7: a history request whose tables align to a non-empty matrix returns the
\* row-dropped table, warned or not, and it has warned exactly if the
\* computed coverage is at most 9/10.
C7_WarnsIffAtMostTreshold ==
    (mpc = "done" /\ event = "history" /\ AdjCloseError(dataframes) = "none"
        /\ UnionDates # {}) =>
        /\ ret.kind = "frame"
        /\ DOMAIN ret.value.data = CompleteDates
        /\ warned <=> (10 * coverage.num <= 9 * coverage.den)

\* a coverage of exactly 9/10, warned and returned
C7_Witness ==
    /\ mpc = "done"
    /\ ret.kind = "frame"
    /\ 10 * coverage.num = 9 * coverage.den
    /\ warned
    /\ Cardinality(DOMAIN ret.value.data) = 9

\* C8: the table a history request returns holds exactly the dates at which
\* every requested symbol has a non-missing adjusted close, with the values
\* of the symbols, hence no missing cell.
C8_ExactlyCompleteDates ==
    (mpc = "done" /\ ret.kind = "frame") =>
        /\ DOMAIN ret.value.data = CompleteDates
        /\ \A d \in DOMAIN ret.value.data : \A i \in Tasks :
              /\ ret.value.data[d][i] # NaN
              /\ ret.value.data[d][i] = SlotValue(i, d)

\* two symbols, a date dropped for a null, a date dropped for a missing row
\* and a date kept
C8_Witness ==
    /\ mpc = "done"
    /\ ret.kind = "frame"
    /\ N = 2
    /\ DOMAIN ret.value.data = {3}
    /\ HasRow(1, 1) /\ ~HasValue(1, 1) /\ HasValue(2, 1)
    /\ HasValue(1, 2) /\ ~HasRow(2, 2)

\* C9: a div or split request whose fetches all succeeded returns the list
\* of the N parsed tables, the i-th that of input symbol i as the endpoint
\* holds it, with no coverage computed and no warning.
C9_RawTablesPerSymbol ==
    (mpc = "done" /\ event # "history" /\ AllDone) =>
        /\ ret.kind = "list"
        /\ Len(ret.value) = N
        /\ \A i \in Tasks :
              ret.value[i] = [column |-> ValueColumn(event),
                              rows |-> ServedRows(symbols[i], event)]
        /\ coverage = NoCoverage
        /\ ~warned

\* dividends of two symbols whose dates do not overlap, fetched at once
C9_Witness ==
    /\ mpc = "done"
    /\ event = "div"
    /\ symbols = <<"BBB", "AAA">>
    /\ USE_THREADING
    /\ fetched[1] /\ fetched[2]
    /\ AllDone
    /\ ret.kind = "list"

\* C10: with USE_THREADING off at most one collector is active at any
\* moment, and the collector of symbol i+1 is not started before the
\* collector of symbol i has ended.
C10_Sequential ==
    ~USE_THREADING =>
        /\ Cardinality({i \in Tasks : Alive(i)}) <= 1
        /\ \A i \in Tasks :
              (i < N /\ pc[i + 1] # "unstarted") => Terminated(i)

\* the second collector runs after the first has ended
C10_Witness ==
    /\ ~USE_THREADING
    /\ N = 2
    /\ Terminated(1)
    /\ Alive(2)

\* C11: a get_cookie_and_crumb call whose quote page lacks the crumb marker
\* writes the body of that page to debug.html, raises only after that, and
\* ends there: it returns no pair.
C11_DebugFileThenError ==
    [][\A i \in Tasks :
          /\ (pc[i] = "get_www" /\ pc'[i] \notin {"get_www", "failed"}) =>
                 (pc'[i] = "write_debug" <=> ~page'[i].hasCrumb)
          /\ (pc[i] = "write_debug" /\ pc'[i] # "write_debug") =>
                 (pc'[i] = "raise_crumb" /\ debug_html' = i)
          /\ (pc[i] = "raise_crumb" /\ pc'[i] # "raise_crumb") =>
                 (pc'[i] = "failed" /\ debug_html # None)
          /\ pc[i] \in {"write_debug", "raise_crumb"} =>
                 (~resolved'[i] /\ got'[i] = NoPair)
          /\ pc[i] = "failed" =>
                 (pc'[i] = "failed" /\ resolved'[i] = resolved[i])]_vars

\* the call of collector 1 has written its page and raised without a pair
C11_Witness ==
    /\ N >= 1
    /\ pc[1] = "failed"
    /\ debug_html = 1
    /\ fetched[1] /\ ~resolved[1]

\* the date index of a table, and the dates of a csv's lines as text
Index(frame) == [k \in 1..Len(frame.rows) |-> frame.rows[k][1]]
DateCells(csv) == [k \in 1..Len(csv.lines) |-> csv.lines[k][1]]
NonDecreasing(ix) == \A k \in 1..(Len(ix) - 1) : ix[k] <= ix[k + 1]
Within(ix, lo, hi) == \A k \in 1..Len(ix) : lo <= ix[k] /\ ix[k] <= hi

\* C12 as stated: whatever the endpoint answers, the date index of a table
\* a collector has parsed is non-decreasing and lies within
\* [start_date, end_date].
C12_IndexSortedInRange ==
    \A i \in Tasks :
        pc[i] = "store" =>
            /\ NonDecreasing(Index(df[i]))
            /\ Within(Index(df[i]), start_date.secs, end_date.secs)

\* C12, amended: the date index of a table a collector has parsed is the
\* Date column of the csv the endpoint answered with, row for row in the
\* order of the csv.
C12_IndexIsDateColumn ==
    \A i \in Tasks :
        pc[i] = "store" =>
            /\ Len(Index(df[i])) = Len(DateCells(raw_csv[i]))
            /\ \A k \in 1..Len(Index(df[i])) :
                  Numeral[Index(df[i])[k]] = DateCells(raw_csv[i])[k]

\* a csv answered with a row dated after end_date, then one dated before
\* start_date
C12_Witness ==
    /\ N = 1
    /\ pc[1] = "store"
    /\ Len(df[1].rows) = 2
    /\ Index(df[1])[1] > end_date.secs
    /\ Index(df[1])[2] < start_date.secs

\* download() has read the slots, or is about to
SlotsRead ==
    \/ mpc = "joinall" /\ joined = N
    \/ mpc = "done" /\ ret # Raise("AssertionError")

\* C13: when download reads the result slots, for the aggregation or to
\* return them, every collector thread it launched has ended, and it has
\* launched one for every symbol.
C13_ReadsAfterJoins == SlotsRead => \A i \in Tasks : Terminated(i)

\* the slots of two collectors that ran at once have been read and returned
C13_Witness ==
    /\ mpc = "done"
    /\ USE_THREADING
    /\ N = 2
    /\ fetched[1] /\ fetched[2]
    /\ ret.kind \in {"frame", "list"}

\* the table collector i parses when the endpoint serves its symbol
TableOf(i) ==
    [column |-> ValueColumn(event), rows |-> ServedRows(symbols[i], event)]

\* C14: a slot changes only by the one assignment of its own collector, as
\* that collector's last step, from None to the parsed table of its symbol;
\* so every slot holds None or that table, and a collector that fails
\* changes no slot.
C14_OwnSlotOnce ==
    [][\A i \in Tasks :
          /\ dataframes'[i] \in {NoneDF, TableOf(i)}
          /\ dataframes'[i] # dataframes[i] =>
                 /\ pc[i] = "store" /\ pc'[i] = "done"
                 /\ dataframes[i] = NoneDF
                 /\ dataframes'[i] = df[i]
                 /\ \A j \in Tasks \ {i} : dataframes'[j] = dataframes[j]
          /\ pc[i] = "done" => (pc'[i] = "done" /\ dataframes'[i] = dataframes[i])
          /\ pc'[i] = "failed" => dataframes'[i] = NoneDF
          /\ (pc[i] # "failed" /\ pc'[i] = "failed") =>
                 dataframes' = dataframes]_vars

\* of two collectors running at once the first failed and the second stored
C14_Witness ==
    /\ N = 2
    /\ USE_THREADING
    /\ pc[1] = "failed" /\ fetched[1]
    /\ pc[2] = "done"
    /\ dataframes[1] = NoneDF
    /\ dataframes[2] = TableOf(2)

\* C15: the collectors are launched one per symbol, each once, in the order of
\* the list; after the pause of the throttle the loop goes on with the next
\* symbol; the loop ends with every symbol's collector launched.
C15_OneLaunchPerSymbol ==
    [][/\ \A i \in Tasks :
             /\ (pc[i] = "unstarted" /\ pc'[i] # "unstarted") =>
                    /\ mpc = "launch" /\ i = index
                    /\ pc'[i] = "check"
                    /\ \A j \in Tasks : j < i => pc[j] # "unstarted"
                    /\ \A j \in Tasks : j > i => pc'[j] = "unstarted"
             /\ pc[i] # "unstarted" => pc'[i] # "unstarted"
             /\ (pc[i] # "check" /\ pc[i] # "unstarted") => pc'[i] # "check"
       /\ (mpc = "sleep" /\ mpc' # "sleep") =>
             (mpc' = "launch" /\ index' = index + 1)
       /\ (mpc # "joinall" /\ mpc' = "joinall") =>
             \A i \in Tasks : pc'[i] # "unstarted"]_vars

\* more than 15 threads active, the throttle has paused, and the second
\* collector was launched all the same: both run at once
C15_Witness ==
    /\ N = 2
    /\ Alive(1) /\ Alive(2)
    /\ ActiveCount > ThrottleLimit + 1

\* C16: download converts start_date to 0 when it is None; a call whose
\* start is then negative or after end raises at once, with no collector
\* launched, no quote page fetched, no pair resolved and CACHE as it was;
\* so every collector is launched with 0 <= start_date <= end_date.
C16_DatesChecked ==
    [][/\ mpc = "begin" =>
             /\ start_date.kind = "None" => start_date' = Epoch(0)
             /\ start_date'.kind = "int" /\ end_date'.kind = "int"
             /\ (start_date'.secs < 0 \/ start_date'.secs > end_date'.secs) =>
                    /\ mpc' = "done"
                    /\ ret' = Raise("AssertionError")
                    /\ CACHE' = CACHE
                    /\ \A i \in Tasks :
                          pc'[i] = "unstarted" /\ ~fetched'[i] /\ ~resolved'[i]
       /\ mpc # "begin" =>
             /\ start_date' = start_date /\ end_date' = end_date
             /\ \A i \in Tasks :
                   pc'[i] # "unstarted" =>
                       (0 <= start_date'.secs /\ start_date'.secs <= end_date'.secs)
       /\ ret = Raise("AssertionError") => UNCHANGED vars]_vars

\* a call for one symbol with a start after its end has raised
C16_Witness ==
    /\ N = 1
    /\ mpc = "done"
    /\ ret = Raise("AssertionError")
    /\ 0 <= start_date.secs /\ start_date.secs > end_date.secs
    /\ pc[1] = "unstarted"
    /\ CACHE = [cookie |-> None, crumb |-> None]

\* C17: the pair a get_cookie_and_crumb call has returned holds the cookie
\* and the crumb of one and the same quote-page fetch, neither of them absent.
C17_PairOfOneFetch ==
    \A i \in Tasks :
        pc[i] = "get_csv" =>
            /\ got[i].cookie # None
            /\ got[i].crumb # None
            /\ got[i].cookie = got[i].crumb

\* C18: none of the steps of a get_cookie_and_crumb call that ends with the
\* crumb not found (the cache test, the page request, the write of
\* debug.html, the raise) changes CACHE.
C18_CrumbFailureKeepsCache ==
    [][\A i \in Tasks :
          (pc'[i] # pc[i]
              /\ pc[i] \in {"check", "get_www", "write_debug", "raise_crumb"})
              => CACHE' = CACHE]_vars

\* with the cache off the first call has filled CACHE, the second has
\* failed for the missing crumb, and CACHE holds the pair of the first
C18_Witness ==
    /\ N = 2
    /\ ~USE_CACHE /\ ~USE_THREADING
    /\ pc[2] = "failed"
    /\ debug_html = 2
    /\ CACHE = [cookie |-> 1, crumb |-> 1]

\* C19: under fair scheduling, with every fetch returning or failing, every
\* download call comes to its end, returned or raised, with every collector
\* it launched ended and every join done.
C19_Terminates ==
    <>(mpc = "done" /\ joined = N /\ \A i \in Tasks : Terminated(i))

\* a call that paused for the throttle and whose collector failed has ended
C19_Witness ==
    /\ mpc = "done"
    /\ N = 2
    /\ USE_THREADING
    /\ pc[1] = "failed" /\ ~fetched[2]
    /\ ret.kind = "raise"

====
